---- MODULE Spec2Model ----
(***************************************************************************)
(* Process supervision core of FAI-PEP:                                    *)
(*   benchmarking/utils/subprocess_with_logger.py                          *)
(*     processRun, _processRun, processWait, _filterOutput, _getOutput,    *)
(*     _kill                                                               *)
(* together with the run registry of benchmarking/utils/utilities.py      *)
(* (setRunStatus, getRunStatus, setRunTimeout, getRunTimeout,              *)
(* getRunKilled), which the supervision code reads and writes.             *)
(*                                                                         *)
(* A caller thread t runs processRun; every attempt may arm one            *)
(* threading.Timer whose callback _kill runs on its own thread; the child  *)
(* process emits lines and exits on its own schedule; any other thread may *)
(* raise a kill request.                                                   *)
(***************************************************************************)
EXTENDS Integers, Sequences, FiniteSets, TLC

(* ------------------------------ bounds --------------------------------- *)
\* largest value of the retry keyword the callers pass
MaxRetry == 2
\* largest number of lines one child writes to its pipe
MaxLines == 2
\* largest number of calls of condition one WatchDog.start lives to see
MaxPolls == 3
\* largest length of an output handed to _filterOutput on its own
MaxOutput == 3

\* largest timeout given to waitForDevice, and the number of reachability
\* probes after which a behaviour is cut
MaxTimeout == 21

MaxProbes == 4

(* --------------------------- the universe ------------------------------ *)
Threads == {1, 2}

\* the default of every key parameter: key="" / process_key=""
DefaultKey == ""
Keys == {DefaultKey, "k"}

\* A raw line of the child's output is a sequence of tokens; " " is
\* trailing white space (the newline that readline returns included).
RawLines ==
    { <<"DONE">>, <<"DEBUG", "DONE", " ">> }

NoPatterns == <<>>
NoFilter == <<>>
\* an element of patterns that is no compiled regular expression (a plain
\* string): pattern.match raises AttributeError
BadPattern == "str"

\* status of a key that was never written
Unset == -1
\* a local variable that was never assigned
Unbound == -100
\* exit status of a process group ended by SIGKILL
SigKilled == -9

NoError == [kind |-> "None", text |-> <<>>]
NoRet == [bound |-> FALSE, lines |-> <<>>, err |-> NoError]
NoChild == [st |-> "none", out |-> <<>>, code |-> 0]

TimerIds == 1..MaxRetry

\* WatchDog: the values main may return; None before it has returned
Values == {"a", "b"}
NoValue == "None"
NoWatchDog == [once |-> TRUE, value |-> NoValue, raises |-> FALSE]

\* _filterOutput has not returned yet
Unfiltered == <<<<"?">>>>

VARIABLES
    run_status,     \* registry: key -> status code
    run_timeout,    \* registry: key -> timed-out flag
    run_killed,     \* registry: key -> kill-request flag
    pc,             \* position of each caller thread
    cfg,            \* keyword arguments of the call of each thread
    retryCount,     \* processRun's local retryCount
    ret,            \* processRun's local ret
    attempts,       \* number of _processRun invocations of the call
    child,          \* the process spawned by the current attempt
    lines,          \* _getOutput's accumulator
    status,         \* processWait's local status
    timer,          \* the Timer of each attempt of each thread
    prevStatus,     \* processWait's status at the end of the attempt before
    \* WatchDog (watchdog.py)
    wd,             \* constructor arguments and behaviour of main (input)
    running,        \* self.running
    watchdog,       \* position of the thread self.watchdog
    start_pc,       \* position of the thread that called start
    start_ret,      \* start's local ret
    result,         \* the value start returned
    conditionCalls, \* number of calls of self.condition
    conditionTrue,  \* number of those calls that returned true
    actionCalls,    \* number of calls of self.action
    \* _filterOutput applied on its own
    arg_output,     \* its argument output
    arg_match_list, \* its argument match_list
    filtered,       \* its return value (Unfiltered before the call)
    \* AndroidPlatform (android_platform.py)
    kf_pc,          \* position in a save / run / restore of the run status
    success,        \* the local success of that code
    wfd_pc,         \* position of waitForDevice
    wfd_timeout,    \* waitForDevice's argument timeout
    period,         \* waitForDevice's local period
    num,            \* waitForDevice's local num
    count,          \* waitForDevice's local count
    ls,             \* waitForDevice's local ls
    probes,         \* number of reachability probes made
    logged          \* the "Cannot reach device" error has been logged

procVars == <<run_status, run_timeout, run_killed, pc, cfg, retryCount, ret,
              attempts, child, lines, status, timer, prevStatus>>

wdVars == <<wd, running, watchdog, start_pc, start_ret, result,
            conditionCalls, conditionTrue, actionCalls>>

filterVars == <<arg_output, arg_match_list, filtered>>

androidVars == <<kf_pc, success, wfd_pc, wfd_timeout, period, num, count,
                 ls, probes, logged>>

vars == <<procVars, wdVars, filterVars, androidVars>>

registry == <<run_status, run_timeout, run_killed>>

(* ---------------------- utilities.py: run registry --------------------- *)
\* getRunStatus(key="")
getRunStatus(rs, key) == IF rs[key] = Unset THEN 0 ELSE rs[key]

\* setRunStatus(status, overwrite=False, key=""): a failure sticks until
\* it is overwritten
setRunStatus(rs, st, overwrite, key) ==
    [rs EXCEPT ![key] =
        IF overwrite THEN st
        ELSE IF getRunStatus(rs, key) # 0 THEN getRunStatus(rs, key)
        ELSE st]

\* setRunTimeout(timedOut=True, key="")
setRunTimeout(rt, key) == [rt EXCEPT ![key] = TRUE]

\* getRunTimeout(key="")
getRunTimeout(rt, key) == rt[key]

\* getRunKilled(key="")
getRunKilled(rk, key) == rk[key]

\* setRunKilled(killed=True, key="")
setRunKilled(rk, key) == [rk EXCEPT ![key] = TRUE]

(* --------------------------- pure functions ---------------------------- *)
\* str.rstrip(): drop the trailing white space of a line
RECURSIVE rstrip(_)
rstrip(line) ==
    IF Len(line) > 0 /\ line[Len(line)] = " "
    THEN rstrip(SubSeq(line, 1, Len(line) - 1))
    ELSE line

\* pattern.match(nline): the pattern matches at the start of the line
patternMatch(pattern, nline) == Len(nline) > 0 /\ nline[1] = pattern

\* the for loop over patterns in _getOutput (lines 214-217)
anyPatternMatch(patterns, nline) ==
    \E i \in 1..Len(patterns) : patternMatch(patterns[i], nline)

\* pattern.match raises: the loop reaches an element without a match
\* method before any pattern has matched
patternRaises(patterns, nline) ==
    \E i \in 1..Len(patterns) :
        /\ patterns[i] = BadPattern
        /\ \A j \in 1..(i - 1) : ~patternMatch(patterns[j], nline)

\* match in line
contains(match, line) == \E i \in 1..Len(line) : line[i] = match

\* _filterOutput(output, match_list): walks the reversed copy of output
\* and deletes output[length - i - 1] for every line that contains one of
\* the matches; i runs over all the lines.
RECURSIVE filterFrom(_, _, _)
filterFrom(output, match_list, idx) ==
    IF idx = 0 THEN output
    ELSE LET hit == \E m \in 1..Len(match_list) :
                        contains(match_list[m], output[idx])
             rest == IF hit
                     THEN SubSeq(output, 1, idx - 1)
                          \o SubSeq(output, idx + 1, Len(output))
                     ELSE output
         IN filterFrom(rest, match_list, idx - 1)

_filterOutput(output, match_list) ==
    filterFrom(output, match_list, Len(output))

\* "\n".join(output), kept as the list of the joined lines
joined(output) == [kind |-> "output", text |-> output]

\* f"{sys.exc_info()[0]}"
excText(name) == [kind |-> "exception", text |-> <<<<name>>>>]

(* ------------------------------ inputs --------------------------------- *)
\* The command (args).  "missing": the executable cannot be started, _Popen
\* raises.  "hang": the child never exits on its own.  "run": the child
\* exits on its own, with a nonzero code in its first `fails` runs and with
\* code 0 in the later ones.  A quiet command writes no output.
command(kind, fails, quiet) == [kind |-> kind, fails |-> fails, quiet |-> quiet]

Missing == command("missing", 0, TRUE)

Commands ==
    { Missing, command("hang", 0, FALSE) }
    \cup { command("run", f, FALSE) : f \in 0..MaxRetry }

exitCode(cmd, run) == IF run <= cmd.fails THEN 1 ELSE 0

\* kwargs.get("retry", 3), line 37: the retry argument, 3 when it is not
\* given
DefaultRetry == 3

NotGiven == -1

retries(c) == IF c.retry = NotGiven THEN DefaultRetry ELSE c.retry

mkcfg(cmd, key, retry, timeout, patterns, ignore, log, filter, nb) ==
    [cmd |-> cmd, process_key |-> key, retry |-> retry, timeout |-> timeout,
     patterns |-> patterns, ignore_status |-> ignore, log_output |-> log,
     filter |-> filter, non_blocking |-> nb]

\* the option profiles of a call: patterns, ignore_status, log_output,
\* filter
Options ==
    { <<NoPatterns, FALSE, FALSE, NoFilter>>,
      <<<<"DONE">>, FALSE, FALSE, NoFilter>>,
      <<<<BadPattern>>, FALSE, FALSE, NoFilter>>,
      <<NoPatterns, TRUE, FALSE, NoFilter>>,
      <<NoPatterns, FALSE, FALSE, <<"DEBUG">>>>,
      <<NoPatterns, FALSE, TRUE, <<"DEBUG">>>> }

\* the arguments of one processRun call (a command that fails more often
\* than the call retries behaves as one that fails in every run)
Configs ==
    { c \in { mkcfg(cmd, k, r, to, o[1], o[2], o[3], o[4], FALSE) :
                cmd \in Commands \ {Missing},
                k \in Keys, r \in 0..MaxRetry, to \in BOOLEAN,
                o \in Options } :
        c.cmd.fails <= c.retry }
    \cup
    { mkcfg(Missing, k, r, to,
            NoPatterns, FALSE, FALSE, NoFilter, FALSE) :
        k \in Keys, r \in 0..MaxRetry, to \in BOOLEAN }
    \cup
    { mkcfg(cmd, k, r, to, pt, FALSE, FALSE, NoFilter, TRUE) :
        cmd \in {Missing, command("hang", 0, FALSE),
                 command("run", 0, FALSE), command("run", 1, FALSE)},
        k \in Keys, r \in 1..MaxRetry, to \in BOOLEAN,
        pt \in {NoPatterns, <<"DONE">>} }
    \cup
    { mkcfg(cmd, DefaultKey, NotGiven, FALSE,
            NoPatterns, FALSE, FALSE, NoFilter, FALSE) :
        cmd \in {Missing, command("run", 0, TRUE),
                 command("run", DefaultRetry, TRUE)} }

NoCfg ==
    mkcfg(Missing, DefaultKey, 0, FALSE,
          NoPatterns, FALSE, FALSE, NoFilter, FALSE)

(* ------------------------------- Init ---------------------------------- *)
\* no WatchDog.start call has been made
WatchDogIdle ==
    /\ wd = NoWatchDog
    /\ running = FALSE
    /\ watchdog = "none"
    /\ start_pc = "idle"
    /\ start_ret = NoValue
    /\ result = NoValue
    /\ conditionCalls = 0
    /\ conditionTrue = 0
    /\ actionCalls = 0

\* _filterOutput is not called on its own
FilterIdle ==
    /\ arg_output = <<>>
    /\ arg_match_list = NoFilter
    /\ filtered = Unfiltered

\* no processRun call has been made, the registry is fresh
ProcessIdle ==
    /\ run_status = [k \in Keys |-> Unset]
    /\ run_timeout = [k \in Keys |-> FALSE]
    /\ run_killed = [k \in Keys |-> FALSE]
    /\ pc = [t \in Threads |-> "idle"]
    /\ cfg = [t \in Threads |-> NoCfg]
    /\ retryCount = [t \in Threads |-> 0]
    /\ ret = [t \in Threads |-> NoRet]
    /\ attempts = [t \in Threads |-> 0]
    /\ child = [t \in Threads |-> NoChild]
    /\ lines = [t \in Threads |-> <<>>]
    /\ status = [t \in Threads |-> Unbound]
    /\ timer = [t \in Threads |-> [i \in TimerIds |-> "none"]]
    /\ prevStatus = [t \in Threads |-> Unbound]

\* no AndroidPlatform method has been called
AndroidIdle ==
    /\ kf_pc = "idle"
    /\ success = 0
    /\ wfd_pc = "idle"
    /\ wfd_timeout = 0
    /\ period = 0
    /\ num = 0
    /\ count = 0
    /\ ls = <<>>
    /\ probes = 0
    /\ logged = FALSE

Init == ProcessIdle /\ WatchDogIdle /\ FilterIdle /\ AndroidIdle

(* --------------------- processRun (lines 34-61) ------------------------ *)
\* lines 35-38: entry; with retry = 0 the loop body never runs and
\* "return ret" raises UnboundLocalError
processRun(t, calls) ==
    /\ pc[t] = "idle"
    /\ \E c \in calls :
          /\ cfg' = [cfg EXCEPT ![t] = c]
          /\ retryCount' = [retryCount EXCEPT ![t] = retries(c)]
          /\ pc' = [pc EXCEPT ![t] =
                      IF retries(c) > 0 THEN "reset" ELSE "raised"]
    /\ UNCHANGED <<registry, ret, attempts, child, lines, status, timer>>
    /\ UNCHANGED <<prevStatus, wdVars, filterVars, androidVars>>

\* a reset that clears the whole entry of the key, flags included
resetStatus_clearsFlags(t) ==
    /\ pc[t] = "reset"
    /\ run_status' = setRunStatus(run_status, 0, TRUE, cfg[t].process_key)
    /\ run_timeout' = [run_timeout EXCEPT ![DefaultKey] = FALSE]
    /\ run_killed' = [run_killed EXCEPT ![cfg[t].process_key] = FALSE]
    /\ pc' = [pc EXCEPT ![t] = "spawn"]
    /\ UNCHANGED <<cfg, retryCount, ret, attempts, child, lines, status,
                   timer>>
    /\ UNCHANGED <<prevStatus, wdVars, filterVars, androidVars>>

\* line 41 (and the sleep of lines 42-44, which changes no state)
resetStatus(t) ==
    /\ pc[t] = "reset"
    /\ run_status' = setRunStatus(run_status, 0, TRUE, cfg[t].process_key)
    /\ pc' = [pc EXCEPT ![t] = "spawn"]
    /\ UNCHANGED <<run_timeout, run_killed, cfg, retryCount, ret, attempts,
                   child, lines, status, timer>>
    /\ UNCHANGED <<prevStatus, wdVars, filterVars, androidVars>>

\* the retry decision without the test of line 54
retryDecision_ignoresTimeout(t) ==
    /\ pc[t] = "check"
    /\ IF getRunStatus(run_status, cfg[t].process_key) = 0
       THEN /\ pc' = [pc EXCEPT ![t] = "done"]
            /\ UNCHANGED retryCount
       ELSE /\ retryCount' = [retryCount EXCEPT ![t] = @ - 1]
            /\ pc' = [pc EXCEPT ![t] =
                        IF retryCount[t] - 1 > 0 THEN "reset" ELSE "done"]
    /\ UNCHANGED <<registry, cfg, ret, attempts, child, lines, status,
                   timer>>
    /\ UNCHANGED <<prevStatus, wdVars, filterVars, androidVars>>

\* lines 48-60: the retry decision after _processRun returned
retryDecision(t) ==
    /\ pc[t] = "check"
    /\ IF getRunStatus(run_status, cfg[t].process_key) = 0
       THEN /\ pc' = [pc EXCEPT ![t] = "done"]
            /\ UNCHANGED retryCount
       ELSE IF getRunTimeout(run_timeout, DefaultKey)
       THEN /\ pc' = [pc EXCEPT ![t] = "done"]
            /\ UNCHANGED retryCount
       ELSE /\ retryCount' = [retryCount EXCEPT ![t] = @ - 1]
            /\ pc' = [pc EXCEPT ![t] =
                        IF retryCount[t] - 1 > 0 THEN "reset" ELSE "done"]
    /\ UNCHANGED <<registry, cfg, ret, attempts, child, lines, status,
                   timer>>
    /\ UNCHANGED <<prevStatus, wdVars, filterVars, androidVars>>

(* -------------------- _processRun (lines 64-88) ------------------------ *)
\* lines 75, 84-88: _Popen raises; the handler records the failure
popenRaises(t) ==
    /\ pc[t] = "spawn"
    /\ cfg[t].cmd.kind = "missing"
    /\ attempts' = [attempts EXCEPT ![t] = @ + 1]
    /\ run_status' = setRunStatus(run_status, 1, FALSE, cfg[t].process_key)
    /\ ret' = [ret EXCEPT ![t] =
                 [bound |-> TRUE, lines |-> <<>>,
                  err |-> excText("FileNotFoundError")]]
    /\ pc' = [pc EXCEPT ![t] = "check"]
    /\ UNCHANGED <<run_timeout, run_killed, cfg, retryCount, child, lines,
                   status, timer>>
    /\ UNCHANGED <<prevStatus, wdVars, filterVars, androidVars>>

\* variant of lines 70-73 that does not test non_blocking: the attempt arms
\* the timer and goes on to processWait
spawnNonBlocking_waits(t) ==
    /\ pc[t] = "spawn"
    /\ cfg[t].cmd.kind # "missing"
    /\ cfg[t].non_blocking
    /\ attempts' = [attempts EXCEPT ![t] = @ + 1]
    /\ child' = [child EXCEPT ![t] =
                   [st |-> "running", out |-> <<>>, code |-> 0]]
    /\ timer' = [timer EXCEPT ![t][attempts[t] + 1] =
                   IF cfg[t].timeout THEN "armed" ELSE "none"]
    /\ lines' = [lines EXCEPT ![t] = <<>>]
    /\ status' = [status EXCEPT ![t] = Unbound]
    /\ prevStatus' = [prevStatus EXCEPT ![t] = status[t]]
    /\ pc' = [pc EXCEPT ![t] = "read"]
    /\ UNCHANGED <<registry, cfg, retryCount, ret>>
    /\ UNCHANGED <<wdVars, filterVars, androidVars>>

\* lines 70-73: non_blocking; the child is spawned and left alone
spawnNonBlocking(t) ==
    /\ pc[t] = "spawn"
    /\ cfg[t].cmd.kind # "missing"
    /\ cfg[t].non_blocking
    /\ attempts' = [attempts EXCEPT ![t] = @ + 1]
    /\ child' = [child EXCEPT ![t] =
                   [st |-> "running", out |-> <<>>, code |-> 0]]
    /\ ret' = [ret EXCEPT ![t] =
                 [bound |-> TRUE, lines |-> <<>>, err |-> NoError]]
    /\ pc' = [pc EXCEPT ![t] = "check"]
    /\ UNCHANGED <<registry, cfg, retryCount, lines, status, timer>>
    /\ UNCHANGED <<prevStatus, wdVars, filterVars, androidVars>>

\* lines 74-80: spawn the child, arm the timer, enter processWait
spawn(t) ==
    /\ pc[t] = "spawn"
    /\ cfg[t].cmd.kind # "missing"
    /\ ~cfg[t].non_blocking
    /\ attempts' = [attempts EXCEPT ![t] = @ + 1]
    /\ child' = [child EXCEPT ![t] =
                   [st |-> "running", out |-> <<>>, code |-> 0]]
    /\ timer' = [timer EXCEPT ![t][attempts[t] + 1] =
                   IF cfg[t].timeout THEN "armed" ELSE "none"]
    /\ lines' = [lines EXCEPT ![t] = <<>>]
    /\ status' = [status EXCEPT ![t] = Unbound]
    /\ prevStatus' = [prevStatus EXCEPT ![t] = status[t]]
    /\ pc' = [pc EXCEPT ![t] = "read"]
    /\ UNCHANGED <<registry, cfg, retryCount, ret>>
    /\ UNCHANGED <<wdVars, filterVars, androidVars>>

(* ---------------------- _getOutput (lines 187-220) --------------------- *)
\* ps.terminate()
terminate(c) == IF c.st = "running" THEN [c EXCEPT !.st = "terminated"] ELSE c

\* an iteration of the read loop that goes on reading after a match
readLine_readsOn(t) ==
    /\ pc[t] = "read"
    /\ ~getRunKilled(run_killed, cfg[t].process_key)
    /\ Len(lines[t]) < Len(child[t].out)
    /\ LET nline == rstrip(child[t].out[Len(lines[t]) + 1])
       IN IF patternRaises(cfg[t].patterns, nline)
          THEN /\ ret' = [ret EXCEPT ![t] =
                            [bound |-> TRUE, lines |-> <<>>,
                             err |-> excText("AttributeError")]]
               /\ lines' = [lines EXCEPT ![t] = Append(@, nline)]
               /\ pc' = [pc EXCEPT ![t] = "check"]
               /\ UNCHANGED <<child, status>>
          ELSE /\ lines' = [lines EXCEPT ![t] = Append(@, nline)]
               /\ UNCHANGED <<pc, child, status, ret>>
    /\ UNCHANGED <<registry, cfg, retryCount, attempts, timer>>
    /\ UNCHANGED <<prevStatus, wdVars, filterVars, androidVars>>

\* lines 196-219, one iteration that reads a line.  On a match processWait
\* goes on with lines 99-104; when pattern.match raises, with lines 150-153.
readLine(t) ==
    /\ pc[t] = "read"
    /\ ~getRunKilled(run_killed, cfg[t].process_key)
    /\ Len(lines[t]) < Len(child[t].out)
    /\ LET nline == rstrip(child[t].out[Len(lines[t]) + 1])
       IN IF patternRaises(cfg[t].patterns, nline)
          THEN /\ ret' = [ret EXCEPT ![t] =
                            [bound |-> TRUE, lines |-> <<>>,
                             err |-> excText("AttributeError")]]
               /\ lines' = [lines EXCEPT ![t] = Append(@, nline)]
               /\ pc' = [pc EXCEPT ![t] = "check"]
               /\ UNCHANGED <<child, status>>
          ELSE IF anyPatternMatch(cfg[t].patterns, nline)
          THEN /\ lines' = [lines EXCEPT ![t] = Append(@, nline)]
               /\ child' = [child EXCEPT ![t] = terminate(@)]
               /\ status' = [status EXCEPT ![t] = 0]
               /\ pc' = [pc EXCEPT ![t] = "report"]
               /\ UNCHANGED ret
          ELSE /\ lines' = [lines EXCEPT ![t] = Append(@, nline)]
               /\ UNCHANGED <<pc, child, status, ret>>
    /\ UNCHANGED <<registry, cfg, retryCount, attempts, timer>>
    /\ UNCHANGED <<prevStatus, wdVars, filterVars, androidVars>>

\* lines 200-205: readline returns "" at the end of the stream
readEOF(t) ==
    /\ pc[t] = "read"
    /\ ~getRunKilled(run_killed, cfg[t].process_key)
    /\ Len(lines[t]) = Len(child[t].out)
    /\ child[t].st \in {"exited", "killed"}
    /\ pc' = [pc EXCEPT ![t] = "wait"]
    /\ UNCHANGED <<registry, cfg, retryCount, ret, attempts, child,
                   lines, status, timer>>
    /\ UNCHANGED <<prevStatus, wdVars, filterVars, androidVars>>

\* line 196: the loop ends on a kill request for process_key
readKilled(t) ==
    /\ pc[t] = "read"
    /\ getRunKilled(run_killed, cfg[t].process_key)
    /\ pc' = [pc EXCEPT ![t] = "wait"]
    /\ UNCHANGED <<registry, cfg, retryCount, ret, attempts, child,
                   lines, status, timer>>
    /\ UNCHANGED <<prevStatus, wdVars, filterVars, androidVars>>

(* ---------------------- processWait (lines 91-153) --------------------- *)
\* lines 107-110: ps.wait returns the exit status
waitExit(t) ==
    /\ pc[t] = "wait"
    /\ ~getRunKilled(run_killed, DefaultKey)
    /\ child[t].st \in {"exited", "killed"}
    /\ status' = [status EXCEPT ![t] = child[t].code]
    /\ pc' = [pc EXCEPT ![t] = "chk"]
    /\ UNCHANGED <<registry, cfg, retryCount, ret, attempts, child,
                   lines, timer>>
    /\ UNCHANGED <<prevStatus, wdVars, filterVars, androidVars>>

\* line 107: the loop ends on a kill request (default key)
waitKilled(t) ==
    /\ pc[t] = "wait"
    /\ getRunKilled(run_killed, DefaultKey)
    /\ pc' = [pc EXCEPT ![t] = "chk"]
    /\ UNCHANGED <<registry, cfg, retryCount, ret, attempts, child,
                   lines, status, timer>>
    /\ UNCHANGED <<prevStatus, wdVars, filterVars, androidVars>>

\* lines 114-117
checkKilled(t) ==
    /\ pc[t] = "chk"
    /\ IF getRunKilled(run_killed, DefaultKey)
       THEN /\ child' = [child EXCEPT ![t] = terminate(@)]
            /\ status' = [status EXCEPT ![t] = 0]
       ELSE UNCHANGED <<child, status>>
    /\ pc' = [pc EXCEPT ![t] = "report"]
    /\ UNCHANGED <<registry, cfg, retryCount, ret, attempts, lines, timer>>
    /\ UNCHANGED <<prevStatus, wdVars, filterVars, androidVars>>

\* a processWait whose result is kept from the first attempt on
report_keepsFirst(t) ==
    /\ pc[t] = "report"
    /\ timer' = [timer EXCEPT ![t][attempts[t]] =
                   IF @ = "armed" THEN "cancelled" ELSE @]
    /\ LET key == cfg[t].process_key
           failed == status[t] # 0
           rs1 == IF failed THEN setRunStatus(run_status, 1, FALSE, key)
                  ELSE run_status
           output == IF (cfg[t].log_output \/ failed)
                        /\ cfg[t].filter # NoFilter
                     THEN _filterOutput(lines[t], cfg[t].filter)
                     ELSE lines[t]
       IN IF status[t] = 0 \/ cfg[t].ignore_status
          THEN /\ run_status' = setRunStatus(rs1, 0, FALSE, key)
               /\ ret' = [ret EXCEPT ![t] =
                            IF @.bound THEN @
                            ELSE [bound |-> TRUE, lines |-> output,
                                  err |-> NoError]]
          ELSE /\ run_status' = setRunStatus(rs1, 1, FALSE, key)
               /\ ret' = [ret EXCEPT ![t] =
                            IF @.bound THEN @
                            ELSE [bound |-> TRUE, lines |-> <<>>,
                                  err |-> joined(output)]]
    /\ pc' = [pc EXCEPT ![t] = "check"]
    /\ UNCHANGED <<run_timeout, run_killed, cfg, retryCount, attempts,
                   child, lines, status>>
    /\ UNCHANGED <<prevStatus, wdVars, filterVars, androidVars>>

\* lines 118-146: cancel the timer, log, record the status, return
report(t) ==
    /\ pc[t] = "report"
    /\ timer' = [timer EXCEPT ![t][attempts[t]] =
                   IF @ = "armed" THEN "cancelled" ELSE @]
    /\ LET key == cfg[t].process_key
           failed == status[t] # 0
           rs1 == IF failed THEN setRunStatus(run_status, 1, FALSE, key)
                  ELSE run_status
           output == IF (cfg[t].log_output \/ failed)
                        /\ cfg[t].filter # NoFilter
                     THEN _filterOutput(lines[t], cfg[t].filter)
                     ELSE lines[t]
       IN IF status[t] = 0 \/ cfg[t].ignore_status
          THEN /\ run_status' = setRunStatus(rs1, 0, FALSE, key)
               /\ ret' = [ret EXCEPT ![t] =
                            [bound |-> TRUE, lines |-> output, err |-> NoError]]
          ELSE /\ run_status' = setRunStatus(rs1, 1, FALSE, key)
               /\ ret' = [ret EXCEPT ![t] =
                            [bound |-> TRUE, lines |-> <<>>,
                             err |-> joined(output)]]
    /\ pc' = [pc EXCEPT ![t] = "check"]
    /\ UNCHANGED <<run_timeout, run_killed, cfg, retryCount, attempts,
                   child, lines, status>>
    /\ UNCHANGED <<prevStatus, wdVars, filterVars, androidVars>>

(* -------------------------- _kill (lines 223-230) ---------------------- *)
\* lines 224-228: the timer of attempt i fires and kills its process group
killpg(t, i) ==
    /\ timer[t][i] = "armed"
    /\ timer' = [timer EXCEPT ![t][i] = "fired"]
    /\ child' = [child EXCEPT ![t] =
                   IF attempts[t] = i /\ @.st = "running"
                   THEN [@ EXCEPT !.st = "killed", !.code = SigKilled]
                   ELSE @]
    /\ UNCHANGED <<registry, pc, cfg, retryCount, ret, attempts, lines,
                   status>>
    /\ UNCHANGED <<prevStatus, wdVars, filterVars, androidVars>>

\* line 229
killSetStatus(t, i) ==
    /\ timer[t][i] = "fired"
    /\ timer' = [timer EXCEPT ![t][i] = "status_set"]
    /\ run_status' = setRunStatus(run_status, 1, FALSE, cfg[t].process_key)
    /\ UNCHANGED <<run_timeout, run_killed, pc, cfg, retryCount, ret,
                   attempts, child, lines, status>>
    /\ UNCHANGED <<prevStatus, wdVars, filterVars, androidVars>>

\* line 230
killSetTimeout(t, i) ==
    /\ timer[t][i] = "status_set"
    /\ timer' = [timer EXCEPT ![t][i] = "finished"]
    /\ run_timeout' = setRunTimeout(run_timeout, DefaultKey)
    /\ UNCHANGED <<run_status, run_killed, pc, cfg, retryCount, ret,
                   attempts, child, lines, status>>
    /\ UNCHANGED <<prevStatus, wdVars, filterVars, androidVars>>

(* ------------------------- the child process --------------------------- *)
\* the child writes a line to the pipe (processWait closes its end of the
\* pipe at line 99, when _getOutput has returned)
childEmit(t, raw) ==
    /\ pc[t] = "read"
    /\ child[t].st = "running"
    /\ ~cfg[t].cmd.quiet
    /\ Len(child[t].out) < MaxLines
    /\ child' = [child EXCEPT ![t].out = Append(@, raw)]
    /\ UNCHANGED <<registry, pc, cfg, retryCount, ret, attempts, lines,
                   status, timer>>
    /\ UNCHANGED <<prevStatus, wdVars, filterVars, androidVars>>

\* the child exits on its own, with the code the command gives this run
childExit(t) ==
    /\ pc[t] \in {"read", "wait"}
    /\ child[t].st = "running"
    /\ cfg[t].cmd.kind = "run"
    /\ child' = [child EXCEPT ![t].st = "exited",
                              ![t].code = exitCode(cfg[t].cmd, attempts[t])]
    /\ UNCHANGED <<registry, pc, cfg, retryCount, ret, attempts, lines,
                   status, timer>>
    /\ UNCHANGED <<prevStatus, wdVars, filterVars, androidVars>>

(* ------------------------ any other thread ----------------------------- *)
\* a kill request, global (default key) or aimed at the key of a call.
\* The flag of key k is read by _getOutput of the calls with process_key k
\* (line 196) and, for the default key, by the wait loop of every call
\* (lines 107, 114); a request raised at another moment is seen as one
\* raised when the next of these readers arrives.
killRequest(k) ==
    /\ ~run_killed[k]
    /\ \E t \in Threads :
          \/ pc[t] = "read" /\ cfg[t].process_key = k
          \/ pc[t] \in {"wait", "chk"} /\ k = DefaultKey
    /\ run_killed' = setRunKilled(run_killed, k)
    /\ UNCHANGED <<run_status, run_timeout, pc, cfg, retryCount, ret,
                   attempts, child, lines, status, timer>>
    /\ UNCHANGED <<prevStatus, wdVars, filterVars, androidVars>>

(* --------------------------- specifications ---------------------------- *)
step(t) ==
    \/ resetStatus(t)
    \/ popenRaises(t)
    \/ spawnNonBlocking(t)
    \/ spawn(t)
    \/ readLine(t)
    \/ readEOF(t)
    \/ readKilled(t)
    \/ waitExit(t)
    \/ waitKilled(t)
    \/ checkKilled(t)
    \/ report(t)
    \/ retryDecision(t)
    \/ \E i \in TimerIds : killpg(t, i)
    \/ \E i \in TimerIds : killSetStatus(t, i)
    \/ \E i \in TimerIds : killSetTimeout(t, i)
    \/ \E raw \in RawLines : childEmit(t, raw)
    \/ childExit(t)

\* one processRun call, every configuration
Next ==
    \/ processRun(1, Configs)
    \/ step(1)
    \/ \E k \in Keys : killRequest(k)

Spec == Init /\ [][Next]_vars

\* Two calls with distinct keys, concurrent or one after the other: thread 1
\* runs a command under a timeout with the default key; thread 2, with key
\* "k" and without a timeout, a command that fails in every run, one that
\* cannot be spawned, or a non_blocking one.
PairCalls1 ==
    { mkcfg(cmd, DefaultKey, 1, TRUE, NoPatterns, FALSE, FALSE, NoFilter,
            FALSE) :
        cmd \in {command("hang", 0, FALSE), Missing} }

PairCalls2 ==
    { mkcfg(cmd, "k", r, FALSE, NoPatterns, FALSE, FALSE, NoFilter, FALSE) :
        r \in 1..MaxRetry, cmd \in {command("run", MaxRetry, TRUE), Missing} }
    \cup
    { mkcfg(command("run", 0, TRUE), "k", 1, FALSE, NoPatterns, FALSE, FALSE,
            NoFilter, TRUE) }

NextPair ==
    \/ processRun(1, PairCalls1)
    \/ processRun(2, PairCalls2)
    \/ \E t \in Threads : step(t)
    \/ \E k \in Keys : killRequest(k)

SpecPair == Init /\ [][NextPair]_vars

\* Two calls one after the other: the second processRun call is made when
\* the first one has returned and its timer thread has ended.  The second
\* call uses either key and has no timeout.
earlierCallOver ==
    /\ pc[1] = "done"
    /\ \A i \in TimerIds : timer[1][i] \notin {"armed", "fired", "status_set"}

SeqCalls2 ==
    PairCalls2
    \cup
    { mkcfg(cmd, DefaultKey, r, FALSE, NoPatterns, FALSE, FALSE, NoFilter,
            FALSE) :
        r \in 1..MaxRetry, cmd \in {command("run", MaxRetry, TRUE), Missing} }

NextSeq ==
    \/ processRun(1, PairCalls1)
    \/ earlierCallOver /\ processRun(2, SeqCalls2)
    \/ \E t \in Threads : step(t)
    \/ \E k \in Keys : killRequest(k)

SpecSeq == Init /\ [][NextSeq]_vars

\* Calls of a command that neither exits nor writes, without a timeout:
\* only a kill request ends such an attempt.  The threads of the calls keep
\* running (weak fairness of their steps: every poll slice of lines 199 and
\* 109 ends after 15 s and the loop tests the flag again); nothing obliges
\* another thread to raise a kill request.
KillCalls ==
    { mkcfg(command("hang", 0, TRUE), k, r, FALSE, NoPatterns, FALSE, FALSE,
            NoFilter, FALSE) :
        k \in Keys, r \in 1..MaxRetry }

stepKill(t) ==
    \/ resetStatus(t)
    \/ spawn(t)
    \/ readKilled(t)
    \/ waitKilled(t)
    \/ checkKilled(t)
    \/ report(t)
    \/ retryDecision(t)

NextKill ==
    \/ \E t \in Threads : processRun(t, KillCalls)
    \/ \E t \in Threads : stepKill(t)
    \/ \E k \in Keys : killRequest(k)

SpecKill ==
    Init /\ [][NextKill]_vars /\ \A t \in Threads : WF_vars(stepKill(t))

(* ----------------------- WatchDog (watchdog.py) ------------------------ *)
\* the constructor arguments (once) and what main does in this call: the
\* value it returns, or that it raises
WatchDogs == [once : BOOLEAN, value : Values, raises : BOOLEAN]

\* lines 35-36 and 42-44: running = True, the thread is started
startWatchDog(c) ==
    /\ start_pc = "idle"
    /\ wd' = c
    /\ running' = TRUE
    /\ watchdog' = "test"
    /\ start_pc' = "main"
    /\ UNCHANGED <<start_ret, result, conditionCalls, conditionTrue,
                   actionCalls>>
    /\ UNCHANGED <<procVars, filterVars, androidVars>>

\* line 37: main returns
mainReturns ==
    /\ start_pc = "main"
    /\ ~wd.raises
    /\ start_ret' = wd.value
    /\ start_pc' = "stop"
    /\ UNCHANGED <<wd, running, watchdog, result, conditionCalls,
                   conditionTrue, actionCalls>>
    /\ UNCHANGED <<procVars, filterVars, androidVars>>

\* line 37: main raises, and so does start; running stays true
mainRaises ==
    /\ start_pc = "main"
    /\ wd.raises
    /\ start_pc' = "raised"
    /\ UNCHANGED <<wd, running, watchdog, start_ret, result, conditionCalls,
                   conditionTrue, actionCalls>>
    /\ UNCHANGED <<procVars, filterVars, androidVars>>

\* line 38
clearRunning ==
    /\ start_pc = "stop"
    /\ running' = FALSE
    /\ start_pc' = "join"
    /\ UNCHANGED <<wd, watchdog, start_ret, result, conditionCalls,
                   conditionTrue, actionCalls>>
    /\ UNCHANGED <<procVars, filterVars, androidVars>>

\* variant of lines 39-40 that does not wait for the thread
joinWatchdog_noWait ==
    /\ start_pc = "join"
    /\ result' = start_ret
    /\ start_pc' = "returned"
    /\ UNCHANGED <<wd, running, watchdog, start_ret, conditionCalls,
                   conditionTrue, actionCalls>>
    /\ UNCHANGED <<procVars, filterVars, androidVars>>

\* lines 39-40: join returns when the thread has ended; start returns ret
joinWatchdog ==
    /\ start_pc = "join"
    /\ watchdog = "dead"
    /\ result' = start_ret
    /\ start_pc' = "returned"
    /\ UNCHANGED <<wd, running, watchdog, start_ret, conditionCalls,
                   conditionTrue, actionCalls>>
    /\ UNCHANGED <<procVars, filterVars, androidVars>>

\* line 47: while self.running
testRunning ==
    /\ watchdog = "test"
    /\ watchdog' = IF running THEN "cond" ELSE "dead"
    /\ UNCHANGED <<wd, running, start_pc, start_ret, result, conditionCalls,
                   conditionTrue, actionCalls>>
    /\ UNCHANGED <<procVars, filterVars, androidVars>>

\* line 48: triggered := self.condition(); the caller's condition returns
\* what it likes
pollCondition(triggered) ==
    /\ watchdog = "cond"
    /\ conditionCalls < MaxPolls
    /\ conditionCalls' = conditionCalls + 1
    /\ conditionTrue' = IF triggered THEN conditionTrue + 1 ELSE conditionTrue
    /\ watchdog' = IF triggered THEN "act" ELSE "sleep"
    /\ UNCHANGED <<wd, running, start_pc, start_ret, result, actionCalls>>
    /\ UNCHANGED <<procVars, filterVars, androidVars>>

\* variant of lines 49-51 without the break
invokeAction_noBreak ==
    /\ watchdog = "act"
    /\ actionCalls' = actionCalls + 1
    /\ watchdog' = "sleep"
    /\ UNCHANGED <<wd, running, start_pc, start_ret, result, conditionCalls,
                   conditionTrue>>
    /\ UNCHANGED <<procVars, filterVars, androidVars>>

\* variant of lines 49-51 that breaks whatever once is
invokeAction_alwaysBreaks ==
    /\ watchdog = "act"
    /\ actionCalls' = actionCalls + 1
    /\ watchdog' = "dead"
    /\ UNCHANGED <<wd, running, start_pc, start_ret, result, conditionCalls,
                   conditionTrue>>
    /\ UNCHANGED <<procVars, filterVars, androidVars>>

\* lines 49-51: self.action(); with once the loop ends
invokeAction ==
    /\ watchdog = "act"
    /\ actionCalls' = actionCalls + 1
    /\ watchdog' = IF wd.once THEN "dead" ELSE "sleep"
    /\ UNCHANGED <<wd, running, start_pc, start_ret, result, conditionCalls,
                   conditionTrue>>
    /\ UNCHANGED <<procVars, filterVars, androidVars>>

\* line 52: time.sleep(self.delay)
sleepDelay ==
    /\ watchdog = "sleep"
    /\ watchdog' = "test"
    /\ UNCHANGED <<wd, running, start_pc, start_ret, result, conditionCalls,
                   conditionTrue, actionCalls>>
    /\ UNCHANGED <<procVars, filterVars, androidVars>>

\* one start call on a fresh WatchDog
NextWatchDog ==
    \/ \E c \in WatchDogs : startWatchDog(c)
    \/ mainReturns
    \/ mainRaises
    \/ clearRunning
    \/ joinWatchdog
    \/ testRunning
    \/ \E triggered \in BOOLEAN : pollCondition(triggered)
    \/ invokeAction
    \/ sleepDelay

SpecWatchDog == Init /\ [][NextWatchDog]_vars

(* --------------------- _filterOutput on its own ------------------------ *)
\* the lines (already right-trimmed) and the filter lists of the calls
FilterLines == { <<"DEBUG", "DONE">>, <<"DONE">>, <<"WARN">> }

Outputs == UNION { [1..n -> FilterLines] : n \in 0..MaxOutput }

MatchLists == { NoFilter, <<"DEBUG">>, <<"DEBUG", "WARN">> }

InitFilter ==
    /\ ProcessIdle
    /\ WatchDogIdle
    /\ AndroidIdle
    /\ arg_output \in Outputs
    /\ arg_match_list \in MatchLists
    /\ filtered = Unfiltered

\* lines 156-163
callFilterOutput ==
    /\ filtered = Unfiltered
    /\ filtered' = _filterOutput(arg_output, arg_match_list)
    /\ UNCHANGED <<arg_output, arg_match_list>>
    /\ UNCHANGED <<procVars, wdVars, androidVars>>

SpecFilter == InitFilter /\ [][callFilterOutput]_vars

(* ------------- AndroidPlatform.waitForDevice (lines 271-282) ----------- *)
Timeouts == 0..MaxTimeout

\* what self.util.shell(["ls", self.tgt_dir]) returns: nothing when the
\* device is not reachable
Listings == { <<>>, <<"benchmark">> }

\* lines 272-275
waitForDevice(timeout) ==
    /\ wfd_pc = "idle"
    /\ wfd_timeout' = timeout
    /\ period' = (timeout \div 20) + 1
    /\ num' = timeout \div ((timeout \div 20) + 1)
    /\ count' = 0
    /\ ls' = <<>>
    /\ wfd_pc' = "test"
    /\ UNCHANGED <<kf_pc, success, probes, logged>>
    /\ UNCHANGED <<procVars, wdVars, filterVars>>

\* line 276: while not ls and count < num
testReachable ==
    /\ wfd_pc = "test"
    /\ wfd_pc' = IF ls = <<>> /\ count < num THEN "probe" ELSE "after"
    /\ UNCHANGED <<kf_pc, success, wfd_timeout, period, num, count, ls,
                   probes, logged>>
    /\ UNCHANGED <<procVars, wdVars, filterVars>>

\* line 277: one reachability probe
probeDevice(listing) ==
    /\ wfd_pc = "probe"
    /\ probes < MaxProbes
    /\ ls' = listing
    /\ probes' = probes + 1
    /\ wfd_pc' = "sleep"
    /\ UNCHANGED <<kf_pc, success, wfd_timeout, period, num, count, logged>>
    /\ UNCHANGED <<procVars, wdVars, filterVars>>

\* line 278: time.sleep(period); count is not changed in the loop
sleepPeriod ==
    /\ wfd_pc = "sleep"
    /\ wfd_pc' = "test"
    /\ UNCHANGED <<kf_pc, success, wfd_timeout, period, num, count, ls,
                   probes, logged>>
    /\ UNCHANGED <<procVars, wdVars, filterVars>>

\* lines 279-282: the error is logged when ls is empty
logUnreachable ==
    /\ wfd_pc = "after"
    /\ logged' = (Len(ls) = 0)
    /\ wfd_pc' = "returned"
    /\ UNCHANGED <<kf_pc, success, wfd_timeout, period, num, count, ls,
                   probes>>
    /\ UNCHANGED <<procVars, wdVars, filterVars>>

\* one waitForDevice call
NextWaitForDevice ==
    \/ \E timeout \in Timeouts : waitForDevice(timeout)
    \/ testReachable
    \/ \E listing \in Listings : probeDevice(listing)
    \/ sleepPeriod
    \/ logUnreachable

SpecWaitForDevice == Init /\ [][NextWaitForDevice]_vars

(* --- commands known to possibly fail (lines 76-78, 153-155, 259-261) --- *)
\* The command goes through self.util (logcat, shell) to processRun with
\* the default key.  The keyword arguments the util adds are not fixed by
\* the caller: any retry count, with or without a timeout.
KnownFailCalls ==
    { mkcfg(cmd, DefaultKey, r, to, NoPatterns, FALSE, FALSE, NoFilter,
            FALSE) :
        cmd \in {Missing, command("run", 0, FALSE), command("run", 1, TRUE),
                 command("hang", 0, TRUE)},
        r \in {1, MaxRetry}, to \in BOOLEAN }

\* lines 76, 153, 259: success = getRunStatus(), made by thread 2 when no
\* other call is running
saveStatus ==
    /\ kf_pc = "idle"
    /\ pc[2] = "idle"
    /\ pc[1] = "idle" \/ earlierCallOver
    /\ success' = getRunStatus(run_status, DefaultKey)
    /\ kf_pc' = "saved"
    /\ UNCHANGED <<wfd_pc, wfd_timeout, period, num, count, ls, probes,
                   logged>>
    /\ UNCHANGED <<procVars, wdVars, filterVars>>

\* lines 78, 155, 261: setRunStatus(success, overwrite=True), when the
\* command has returned
restoreStatus ==
    /\ kf_pc = "saved"
    /\ pc[2] = "done"
    /\ run_status' = setRunStatus(run_status, success, TRUE, DefaultKey)
    /\ kf_pc' = "restored"
    /\ UNCHANGED <<run_timeout, run_killed, pc, cfg, retryCount, ret,
                   attempts, child, lines, status, timer, prevStatus>>
    /\ UNCHANGED <<success, wfd_pc, wfd_timeout, period, num, count, ls,
                   probes, logged>>
    /\ UNCHANGED <<wdVars, filterVars>>

stepKnownFail(t) ==
    \/ resetStatus(t)
    \/ popenRaises(t)
    \/ spawn(t)
    \/ readLine(t)
    \/ readEOF(t)
    \/ readKilled(t)
    \/ waitExit(t)
    \/ waitKilled(t)
    \/ checkKilled(t)
    \/ report(t)
    \/ retryDecision(t)
    \/ \E i \in TimerIds : killpg(t, i)
    \/ \E i \in TimerIds : killSetStatus(t, i)
    \/ \E i \in TimerIds : killSetTimeout(t, i)
    \/ \E raw \in RawLines : childEmit(t, raw)
    \/ childExit(t)

\* an earlier call of thread 1 leaves a status for the default key; then
\* thread 2 saves the status, runs the command and restores the status
NextKnownFail ==
    \/ kf_pc = "idle" /\ processRun(1, PairCalls1)
    \/ saveStatus
    \/ kf_pc = "saved" /\ processRun(2, KnownFailCalls)
    \/ \E t \in Threads : stepKnownFail(t)
    \/ restoreStatus
    \/ \E k \in Keys : killRequest(k)

SpecKnownFail == Init /\ [][NextKnownFail]_vars

(* ------------------------------- claims -------------------------------- *)
\* _kill has begun for some attempt of the call of thread t
timerFired(t) ==
    \E i \in TimerIds : timer[t][i] \in {"fired", "status_set", "finished"}

noKillRequest == \A k \in Keys : ~run_killed[k]

\* processRun has returned to its caller
returned(t) == pc[t] = "done"

\* ([], error) with error not None
isFailure(r) == r.bound /\ r.lines = <<>> /\ r.err # NoError

\* the lines of an output as _getOutput records them
stripped(out) == [i \in 1..Len(out) |-> rstrip(out[i])]

\* the command fails in every run of the call
alwaysFails(c) == c.cmd.kind = "run" /\ c.cmd.fails >= retries(c)

\* C1: once the timer of an attempt has fired (_kill has killed the process
\* group), processRun starts no further attempt in that call, under every
\* interleaving of the steps of _kill with the main thread.
C1_NoAttemptAfterTimerFired ==
    [][\A t \in Threads : timerFired(t) => attempts'[t] = attempts[t]]_vars

\* C2: a command that never exits on its own and emits no matching line,
\* run under a timeout with no kill request: when processRun returns, the
\* result is ([], error), the status of the key is failure and the timedOut
\* flag is true.
C2_TimeoutReturnsFailure ==
    \A t \in Threads :
        (/\ returned(t)
         /\ cfg[t].cmd.kind = "hang"
         /\ cfg[t].timeout
         /\ cfg[t].patterns = NoPatterns
         /\ noKillRequest)
        => (/\ isFailure(ret[t])
            /\ getRunStatus(run_status, cfg[t].process_key) = 1
            /\ getRunTimeout(run_timeout, DefaultKey))

\* C3: with retry = N >= 1, a command that exits nonzero in every run, no
\* timeout, ignore_status unset and no kill request, processRun makes
\* exactly N attempts and returns a failure.
C3_ExactlyRetryAttempts ==
    \A t \in Threads :
        (/\ returned(t)
         /\ retries(cfg[t]) >= 1
         /\ alwaysFails(cfg[t])
         /\ ~cfg[t].timeout
         /\ ~cfg[t].ignore_status
         /\ cfg[t].patterns = NoPatterns
         /\ noKillRequest)
        => (attempts[t] = retries(cfg[t]) /\ isFailure(ret[t]))

\* C4: when the child of the first attempt has exited with code 0 and no
\* patterns are configured (no timeout and no kill request either),
\* processRun stops after that attempt and returns (L, None), L being all
\* the lines the child emitted, in order.
C4_ExitZeroReturnsAllLines ==
    [][\A t \in Threads :
         (/\ pc[t] = "check" /\ pc'[t] # "check"
          /\ attempts[t] = 1
          /\ child[t].st = "exited" /\ child[t].code = 0
          /\ cfg[t].patterns = NoPatterns
          /\ ~cfg[t].timeout
          /\ noKillRequest)
         => (/\ pc'[t] = "done"
             /\ ret[t] = [bound |-> TRUE, lines |-> stripped(child[t].out),
                          err |-> NoError])]_vars

\* the attempt that has just returned ended on a line matching a pattern
endedOnMatch(t) ==
    /\ pc[t] \in {"check", "done"}
    /\ status[t] = 0
    /\ Len(lines[t]) > 0
    /\ anyPatternMatch(cfg[t].patterns, lines[t][Len(lines[t])])

\* the lines of out up to and including the first one matching a pattern
RECURSIVE uptoFirstMatch(_, _)
uptoFirstMatch(patterns, out) ==
    IF out = <<>> THEN <<>>
    ELSE IF anyPatternMatch(patterns, Head(out)) THEN <<Head(out)>>
    ELSE <<Head(out)>> \o uptoFirstMatch(patterns, Tail(out))

\* C5: when an emitted line matches a pattern the attempt is a success:
\* error None, status of the key success (so no retry), and the returned
\* lines are the emitted lines up to and including the first matching one.
C5_MatchIsSuccess ==
    \A t \in Threads :
        endedOnMatch(t)
        => (/\ ret[t].err = NoError
            /\ ret[t].lines = uptoFirstMatch(cfg[t].patterns,
                                              stripped(child[t].out))
            /\ getRunStatus(run_status, cfg[t].process_key) = 0)

\* C6: when the global kill-request flag has become true while the call was
\* reading or waiting (and the timer had not killed the child before), the
\* attempt returns (lines, None) and counts as a success: the status of
\* the key is success, so no retry is made.
C6_KillRequestIsSuccess ==
    \A t \in Threads :
        (/\ pc[t] \in {"check", "done"}
         /\ run_killed[DefaultKey]
         /\ child[t].st # "killed")
        => (/\ ret[t].err = NoError
            /\ getRunStatus(run_status, cfg[t].process_key) = 0)

\* C7: a call whose key differs from the key of the other call and that
\* has no timeout of its own ends as it would alone, whatever the timer of
\* the other call does (no kill request is raised at all): with a command
\* that fails in every run, after exactly `retry` attempts, with a failure.
C7_DistinctKeysIndependent ==
    \A t \in Threads :
        (/\ returned(t)
         /\ \A u \in Threads \ {t} :
               /\ pc[u] # "idle"
               /\ cfg[u].process_key # cfg[t].process_key
         /\ alwaysFails(cfg[t])
         /\ ~cfg[t].timeout
         /\ ~timerFired(t)
         /\ noKillRequest)
        => (attempts[t] = retries(cfg[t]) /\ isFailure(ret[t]))

\* C8: for every configuration and every behaviour of the child,
\* processRun returns a pair and never raises.
C8_NeverRaises == \A t \in Threads : pc[t] # "raised"

\* C9: in every reachable state and for every key, timedOut implies that
\* the status is failure.
C9_TimedOutImpliesFailure ==
    \A k \in Keys :
        getRunTimeout(run_timeout, k) => getRunStatus(run_status, k) = 1

\* C10: a result is (lines, None) or ([], error); a non-None error never
\* comes with lines; after a failure by nonzero exit the error is the
\* captured lines of the attempt joined by newlines.
C10_ResultShape ==
    \A t \in Threads :
        ret[t].bound
        => (/\ (ret[t].err = NoError \/ ret[t].lines = <<>>)
            /\ (/\ pc[t] \in {"check", "done"}
                 /\ ret[t].err.kind = "output"
                 /\ child[t].st = "exited")
               => ret[t].err = joined(lines[t]))

C12_IgnoreStatusIsSuccess ==
    \A t \in Threads :
        (/\ pc[t] \in {"check", "done"}
         /\ cfg[t].ignore_status
         /\ ~cfg[t].timeout
         /\ noKillRequest
         /\ child[t].st = "exited"
         /\ child[t].code # 0)
        => (/\ ret[t] = [bound |-> TRUE, lines |-> stripped(child[t].out),
                         err |-> NoError]
            /\ getRunStatus(run_status, cfg[t].process_key) = 0
            /\ attempts[t] = 1)

\* C13: with once = true one start call invokes action at most once, and
\* exactly once as soon as a call of condition has returned true (which it
\* can only do at a poll taken while running was true).
C13_OnceInvokesActionOnce ==
    wd.once =>
        /\ actionCalls <= 1
        /\ (conditionTrue >= 1 /\ watchdog # "act") => actionCalls = 1
        /\ conditionTrue = 0 => actionCalls = 0

\* condition was false at the first poll and true at the second, main is
\* still running, action has been invoked and the thread has ended
C13_Witness ==
    /\ wd.once
    /\ start_pc = "main"
    /\ conditionCalls = 2
    /\ conditionTrue = 1
    /\ actionCalls = 1
    /\ watchdog = "dead"

\* C14: start returns the value main returned, and only when the thread
\* has ended; after start has returned neither condition nor action is
\* called.
C14_StartReturnsAfterJoin ==
    [][start_pc' = "returned" =>
          /\ result' = wd'.value
          /\ watchdog' = "dead"
          /\ start_pc = "returned" =>
                 /\ conditionCalls' = conditionCalls
                 /\ actionCalls' = actionCalls]_vars

C14_Witness ==
    /\ start_pc = "returned"
    /\ ~wd.once
    /\ result = "b"
    /\ conditionCalls >= 2
    /\ actionCalls >= 1

\* what the filter is specified to do: remove the trailing run of lines that
\* contain a listed substring, and stop at the first line that contains none
RECURSIVE dropTrailing(_, _)
dropTrailing(out, matches) ==
    IF Len(out) > 0
       /\ \E m \in 1..Len(matches) : contains(matches[m], out[Len(out)])
    THEN dropTrailing(SubSeq(out, 1, Len(out) - 1), matches)
    ELSE out

\* C15: _filterOutput removes only the trailing run of lines that contain a
\* listed substring; a matching line followed by a non-matching line is
\* kept.
C15_FilterRemovesTrailingOnly ==
    filtered # Unfiltered =>
        filtered = dropTrailing(arg_output, arg_match_list)

\* the pair processWait returns for the accumulated lines and the exit
\* status when no filter is configured
unfilteredResult(t) ==
    IF status[t] = 0 \/ cfg[t].ignore_status
    THEN [bound |-> TRUE, lines |-> lines[t], err |-> NoError]
    ELSE [bound |-> TRUE, lines |-> <<>>, err |-> joined(lines[t])]

\* C16: the filter option changes only what is logged: the pair an attempt
\* returns is the one it returns without a filter, whatever the output,
\* the exit status and log_output are.
C16_FilterOnlyAffectsLog ==
    [][\A t \in Threads :
          (pc[t] = "report" /\ pc'[t] = "check")
          => ret'[t] = unfilteredResult(t)]_vars

\* processWait of attempt i of thread t has returned
waitReturned(t, i) ==
    \/ attempts[t] > i
    \/ attempts[t] = i /\ pc[t] \in {"check", "reset", "spawn", "done"}

\* C17: a timer that has not fired when processWait of its attempt returns
\* (after an exit, a match, a kill request or an exception) never fires
\* afterwards: it kills no process group and writes neither the status nor
\* the timedOut flag during a later attempt or after processRun returned.
C17_NoTimerAfterWaitReturned ==
    [][\A t \in Threads : \A i \in TimerIds :
          (waitReturned(t, i) /\ timer[t][i] = "armed")
          => timer'[t][i] = "armed"]_vars

\* C18: when _Popen raises, the attempt sets the status of the key to
\* failure and returns ([], description of the exception) with no timer
\* armed; the failure is retried, so a command that cannot be spawned is
\* attempted exactly `retry` times.
C18_SpawnFailureIsRetried ==
    \A t \in Threads :
        (/\ pc[t] \in {"check", "done"}
         /\ cfg[t].cmd.kind = "missing"
         /\ retries(cfg[t]) >= 1)
        => (/\ ret[t] = [bound |-> TRUE, lines |-> <<>>,
                         err |-> excText("FileNotFoundError")]
            /\ \A i \in TimerIds : timer[t][i] = "none"
            /\ getRunStatus(run_status, cfg[t].process_key) = 1
            /\ returned(t) => attempts[t] = retries(cfg[t]))

\* C19: the status of an attempt is decided by the first termination
\* condition and is not changed by a later one in the same attempt: once
\* ps.wait has returned the nonzero exit code of a child that exited on its
\* own, a kill request that arrives before processWait finishes does not
\* turn the attempt into a success.
C19_FirstConditionWins ==
    [][\A t \in Threads :
          (/\ status[t] \notin {0, Unbound}
           /\ child[t].st = "exited"
           /\ attempts'[t] = attempts[t])
          => status'[t] = status[t]]_vars

\* C20: whenever an attempt returns an error that is not None, the status
\* of the key is failure at that moment, on every failure path: spawn
\* exception, nonzero exit, exception inside processWait.
C20_ErrorImpliesFailureStatus ==
    \A t \in Threads :
        (pc[t] = "check" /\ ret[t].err # NoError)
        => getRunStatus(run_status, cfg[t].process_key) = 1

\* C21: a timedOut flag left set by an earlier processRun call does not
\* change the retries of a later call: a later call whose command exits
\* nonzero in every run, without a timer of its own and without a kill
\* request, makes `retry` attempts.
C21_StaleTimedOutNoEffect ==
    (/\ earlierCallOver
     /\ returned(2)
     /\ alwaysFails(cfg[2])
     /\ ~cfg[2].timeout
     /\ noKillRequest)
    => attempts[2] = retries(cfg[2])

\* C22: the reading loop and the wait loop act on the same kill request:
\* when a kill was requested for the process_key of the call (so _getOutput
\* stops reading unless a line has matched), processWait ends the attempt
\* with status 0, not with the exit status of the child.
C22_KillRequestSeenByBothLoops ==
    \A t \in Threads :
        (/\ pc[t] = "report"
         /\ getRunKilled(run_killed, cfg[t].process_key)
         /\ ~timerFired(t))
        => status[t] = 0

\* C23: a failure of an earlier attempt does not leak into a later one:
\* when the attempt before ended with a nonzero exit code of its child and
\* the child of this attempt has exited with 0 (no patterns, no filter, no
\* kill request), the attempt returns its lines with error None and the
\* status of the key is success, so processRun stops.
C23_EarlierFailureDoesNotLeak ==
    \A t \in Threads :
        (/\ pc[t] \in {"check", "done"}
         /\ attempts[t] >= 2
         /\ prevStatus[t] \notin {0, Unbound, SigKilled}
         /\ child[t].st = "exited"
         /\ child[t].code = 0
         /\ cfg[t].patterns = NoPatterns
         /\ cfg[t].filter = NoFilter
         /\ noKillRequest)
        => (/\ ret[t] = [bound |-> TRUE, lines |-> stripped(child[t].out),
                         err |-> NoError]
            /\ getRunStatus(run_status, cfg[t].process_key) = 0)

\* C24: processRun makes at most `retry` attempts (3 when retry is not
\* given), and it goes on to a further attempt only when the status of the
\* run key is a failure and the timedOut flag is false at the retry decision
C24_BoundedRetries ==
    [][\A t \in Threads :
          /\ attempts'[t] <= retries(cfg'[t])
          /\ (pc[t] = "check" /\ pc'[t] = "reset")
                => /\ getRunStatus(run_status, cfg[t].process_key) # 0
                   /\ ~getRunTimeout(run_timeout, DefaultKey)
                   /\ attempts[t] < retries(cfg[t])]_vars

C24_Witness ==
    \E t \in Threads :
        /\ returned(t)
        /\ cfg[t].retry = NotGiven
        /\ attempts[t] = DefaultRetry
        /\ isFailure(ret[t])

\* C25: a call whose child neither exits nor writes, without a timeout,
\* returns once the kill-request flag of its run is set: the read loop and
\* the wait loop both see the flag after a poll slice
C25_KillRequestEndsSilentChild ==
    \A t \in Threads :
        (pc[t] \in {"read", "wait"}
         /\ getRunKilled(run_killed, cfg[t].process_key))
            ~> (pc[t] = "done")

\* C26: no step of processRun clears the timedOut flag or the kill-request
\* flag: the reset before an attempt changes only the status of the run
\* key, so a flag that is true stays true up to the return of processRun
C26_ResetKeepsFlags ==
    [][\A k \in Keys :
          /\ run_timeout[k] => run_timeout'[k]
          /\ run_killed[k] => run_killed'[k]]_vars

C26_Witness ==
    \E t \in Threads :
        /\ pc[t] = "spawn"
        /\ attempts[t] >= 1
        /\ getRunTimeout(run_timeout, DefaultKey)
        /\ getRunKilled(run_killed, cfg[t].process_key)
        /\ getRunStatus(run_status, cfg[t].process_key) = 0

\* C27: when main raises, start has still stopped the poller: once start
\* has exited with the exception, running is false
C27_MainRaisesStopsPoller ==
    start_pc = "raised" => ~running

\* C28: with once = false the poller goes on after a trigger: action has
\* been invoked once for every poll at which condition returned true (the
\* invocation for the latest such poll may be about to happen), and the
\* poller has ended only if main has completed
C28_RepeatedTriggers ==
    (wd # NoWatchDog /\ ~wd.once)
        => /\ actionCalls = conditionTrue - (IF watchdog = "act" THEN 1 ELSE 0)
           /\ watchdog = "dead" => (start_pc \in {"join", "returned"} /\ ~running)

C28_Witness ==
    /\ wd # NoWatchDog
    /\ ~wd.once
    /\ actionCalls >= 2
    /\ conditionCalls > conditionTrue
    /\ start_pc = "returned"

\* C29: within an attempt the accumulated lines are a prefix, in order, of
\* the lines the child has emitted (each right-trimmed), and no line has
\* been read after a line that matches a pattern: only the last
\* accumulated line can match
C29_LinesArePrefix ==
    \A t \in Threads :
        /\ Len(lines[t]) <= Len(child[t].out)
        /\ lines[t] = stripped(SubSeq(child[t].out, 1, Len(lines[t])))
        /\ \A i \in 1..(Len(lines[t]) - 1) :
              ~anyPatternMatch(cfg[t].patterns, lines[t][i])

C29_Witness ==
    \E t \in Threads :
        /\ returned(t)
        /\ cfg[t].patterns = <<"DONE">>
        /\ Len(child[t].out) = 2
        /\ Len(lines[t]) = 1
        /\ anyPatternMatch(cfg[t].patterns, lines[t][1])
        /\ anyPatternMatch(cfg[t].patterns, rstrip(child[t].out[2]))

\* the pair the last attempt of a call produced, from that attempt's own
\* lines and exit status
lastAttemptResult(t) ==
    IF cfg[t].cmd.kind = "missing"
    THEN [bound |-> TRUE, lines |-> <<>>, err |-> excText("FileNotFoundError")]
    ELSE IF cfg[t].non_blocking
    THEN [bound |-> TRUE, lines |-> <<>>, err |-> NoError]
    ELSE IF Len(lines[t]) > 0
            /\ patternRaises(cfg[t].patterns, lines[t][Len(lines[t])])
    THEN [bound |-> TRUE, lines |-> <<>>, err |-> excText("AttributeError")]
    ELSE LET output == IF (cfg[t].log_output \/ status[t] # 0)
                          /\ cfg[t].filter # NoFilter
                       THEN _filterOutput(lines[t], cfg[t].filter)
                       ELSE lines[t]
         IN IF status[t] = 0 \/ cfg[t].ignore_status
            THEN [bound |-> TRUE, lines |-> output, err |-> NoError]
            ELSE [bound |-> TRUE, lines |-> <<>>, err |-> joined(output)]

\* C30: processRun returns the result of the last attempt it made, built
\* from the lines and the exit status of that attempt alone; nothing of an
\* earlier attempt is in the returned pair
C30_ReturnsLastAttempt ==
    \A t \in Threads : returned(t) => ret[t] = lastAttemptResult(t)

C30_Witness ==
    \E t \in Threads :
        /\ returned(t)
        /\ attempts[t] = 2
        /\ prevStatus[t] = 1
        /\ ret[t].err = NoError
        /\ ret[t].lines = <<<<"DEBUG", "DONE">>>>

\* C31: waitForDevice makes at most int(timeout / period) reachability
\* probes, also when the device never becomes reachable
C31_BoundedProbes ==
    probes <= num

\* C32: a command known to possibly fail leaves the run status of the
\* default key as it was: once the status has been restored after the
\* command, it equals the value read just before the command
C32_KnownFailKeepsStatus ==
    kf_pc = "restored" => getRunStatus(run_status, DefaultKey) = success

====
